---- MODULE Spec2Model ----
(***************************************************************************)
(* ChatTextAreaAutocompleteTelemetry: a stateless wrapper that assembles a *)
(* property mapping per autocomplete event and forwards it to the          *)
(* TelemetryService singleton when that singleton exists.                  *)
(*                                                                         *)
(* The wrapper itself has no fields.  The state of the model is what the   *)
(* wrapper can observe and affect: whether the singleton exists, and the   *)
(* ordered record of external effects (calls of the sink's captureEvent    *)
(* and console.log lines).  `calls` is the history of the calls made on    *)
(* the wrapper, with their arguments and how each one ended.               *)
(***************************************************************************)
EXTENDS Integers, Sequences, FiniteSets, TLC

VARIABLES hasInstance, calls, effects

vars == <<hasInstance, calls, effects>>

\* Number of calls made on the wrapper in one behaviour.
MaxCalls == 2

----------------------------------------------------------------------------
(* Values *)

\* The JavaScript value undefined, as the value of an optional string field.
Undefined == "<undefined>"

\* TelemetryEventName members used by the wrapper.
CHAT_AUTOCOMPLETE_SUGGESTION_REQUESTED == "CHAT_AUTOCOMPLETE_SUGGESTION_REQUESTED"
CHAT_AUTOCOMPLETE_LLM_REQUEST_COMPLETED == "CHAT_AUTOCOMPLETE_LLM_REQUEST_COMPLETED"
CHAT_AUTOCOMPLETE_LLM_REQUEST_FAILED == "CHAT_AUTOCOMPLETE_LLM_REQUEST_FAILED"
CHAT_AUTOCOMPLETE_SUGGESTION_RETURNED == "CHAT_AUTOCOMPLETE_SUGGESTION_RETURNED"
CHAT_AUTOCOMPLETE_SUGGESTION_FILTERED == "CHAT_AUTOCOMPLETE_SUGGESTION_FILTERED"
CHAT_AUTOCOMPLETE_SUGGESTION_ACCEPTED == "CHAT_AUTOCOMPLETE_SUGGESTION_ACCEPTED"
CHAT_AUTOCOMPLETE_SUGGESTION_DISMISSED == "CHAT_AUTOCOMPLETE_SUGGESTION_DISMISSED"

TelemetryEventName ==
    { CHAT_AUTOCOMPLETE_SUGGESTION_REQUESTED,
      CHAT_AUTOCOMPLETE_LLM_REQUEST_COMPLETED,
      CHAT_AUTOCOMPLETE_LLM_REQUEST_FAILED,
      CHAT_AUTOCOMPLETE_SUGGESTION_RETURNED,
      CHAT_AUTOCOMPLETE_SUGGESTION_FILTERED,
      CHAT_AUTOCOMPLETE_SUGGESTION_ACCEPTED,
      CHAT_AUTOCOMPLETE_SUGGESTION_DISMISSED }

\* ChatAutocompleteContext values: one with every field set (modelId and
\* provider given), one without the optional fields; every field differs
\* between the two.
ChatAutocompleteContext ==
    { [ modelId |-> "test-model", provider |-> "test-provider", usedFim |-> TRUE,
        hasVisibleCodeContext |-> TRUE, hasClipboardContext |-> FALSE ],
      [ modelId |-> Undefined, provider |-> Undefined, usedFim |-> FALSE,
        hasVisibleCodeContext |-> FALSE, hasClipboardContext |-> TRUE ] }

\* Lengths of the user's text and of a suggestion.
Lengths == { 42 }

\* The optional token counts of an LLM request, when supplied.
TokenCounts == [ inputTokens |-> 100, outputTokens |-> 50 ]

Restrict(f, S) == [ k \in S |-> f[k] ]

\* { ...a, ...b }: the keys of both, b's value where both have the key.
Spread(a, b) ==
    [ k \in (DOMAIN a) \cup (DOMAIN b) |-> IF k \in DOMAIN b THEN b[k] ELSE a[k] ]

\* The properties argument of captureLlmRequestCompleted: latencyMs and any
\* subset of the optional inputTokens, outputTokens.
LlmRequestCompletedArgs ==
    { Spread([ latencyMs |-> 150 ], Restrict(TokenCounts, S)) :
        S \in SUBSET { "inputTokens", "outputTokens" } }

\* The properties argument of captureLlmRequestFailed.
LlmRequestFailedArgs == { [ latencyMs |-> 100, error |-> "Network timeout" ] }

\* Values of the reason parameter of captureSuggestionFiltered, and of the
\* dismissReason parameter of captureSuggestionDismissed.  Both are passed
\* through as they are; a sample of each union is drawn.
FilterReasons == { "empty_response", "model_not_loaded" }

DismissReasons == { "escape", "timeout" }

\* Event kind drawn for a captureEvent call that has no properties argument.
BareEvents == { CHAT_AUTOCOMPLETE_SUGGESTION_DISMISSED }

\* What the sink's captureEvent does with one call: returns, or throws.
SinkOk == "ok"
SinkErrors == { "Error: sink failure" }
SinkResults == { SinkOk } \cup SinkErrors

\* How a call on the wrapper ends: it returns, or an error leaves it.
Returned == "returned"

\* No properties argument (captureEvent called with the event only).
NoProperties == [ k \in {} |-> TRUE ]

----------------------------------------------------------------------------
(* captureEvent *)

SinkCall(event, hasProps, properties, sinkResult) ==
    [ target |-> "sink", event |-> event, hasProps |-> hasProps,
      properties |-> properties, result |-> sinkResult ]

LogLine(event, hasProps, properties) ==
    [ target |-> "log", message |-> "Chat Autocomplete Telemetry event: " \o event,
      hasProps |-> hasProps, properties |-> properties ]

\* captureEvent without the hasInstance() check: it forwards and logs whether
\* or not the singleton exists.
captureEvent_Unchecked(event, hasProps, properties, sinkResult) ==
    IF sinkResult = SinkOk
    THEN [ effects |-> << SinkCall(event, hasProps, properties, sinkResult),
                          LogLine(event, hasProps, properties) >>,
           outcome |-> Returned ]
    ELSE [ effects |-> << SinkCall(event, hasProps, properties, sinkResult) >>,
           outcome |-> sinkResult ]

\* captureEvent that calls the sink again when its first call failed.
captureEvent_Retry(event, hasProps, properties, sinkResult) ==
    IF hasInstance
    THEN IF sinkResult = SinkOk
         THEN [ effects |-> << SinkCall(event, hasProps, properties, sinkResult),
                               LogLine(event, hasProps, properties) >>,
                outcome |-> Returned ]
         ELSE [ effects |-> << SinkCall(event, hasProps, properties, sinkResult),
                               SinkCall(event, hasProps, properties, sinkResult) >>,
                outcome |-> sinkResult ]
    ELSE [ effects |-> << >>, outcome |-> Returned ]

\* captureEvent that reads TelemetryService.instance before asking
\* hasInstance(): the getter throws when there is no singleton.
captureEvent_InstanceFirst(event, hasProps, properties, sinkResult) ==
    IF hasInstance
    THEN IF sinkResult = SinkOk
         THEN [ effects |-> << SinkCall(event, hasProps, properties, sinkResult),
                               LogLine(event, hasProps, properties) >>,
                outcome |-> Returned ]
         ELSE [ effects |-> << SinkCall(event, hasProps, properties, sinkResult) >>,
                outcome |-> sinkResult ]
    ELSE [ effects |-> << >>, outcome |-> "Error: TelemetryService not initialized" ]

\* captureEvent that logs before it calls the sink.
captureEvent_LogFirst(event, hasProps, properties, sinkResult) ==
    IF hasInstance
    THEN IF sinkResult = SinkOk
         THEN [ effects |-> << LogLine(event, hasProps, properties),
                               SinkCall(event, hasProps, properties, sinkResult) >>,
                outcome |-> Returned ]
         ELSE [ effects |-> << LogLine(event, hasProps, properties),
                               SinkCall(event, hasProps, properties, sinkResult) >>,
                outcome |-> sinkResult ]
    ELSE [ effects |-> << >>, outcome |-> Returned ]

\* captureEvent that wraps the sink call in try/catch and swallows the error.
captureEvent_Catches(event, hasProps, properties, sinkResult) ==
    IF hasInstance
    THEN IF sinkResult = SinkOk
         THEN [ effects |-> << SinkCall(event, hasProps, properties, sinkResult),
                               LogLine(event, hasProps, properties) >>,
                outcome |-> Returned ]
         ELSE [ effects |-> << SinkCall(event, hasProps, properties, sinkResult) >>,
                outcome |-> Returned ]
    ELSE [ effects |-> << >>, outcome |-> Returned ]

\* The effects of one captureEvent call, in order, and how the call ends.
\* The sink's captureEvent is called first; console.log runs only when that
\* call returned.  Nothing catches what the sink throws.
captureEvent(event, hasProps, properties, sinkResult) ==
    IF hasInstance
    THEN IF hasProps
         THEN IF sinkResult = SinkOk
              THEN [ effects |-> << SinkCall(event, TRUE, properties, sinkResult),
                                    LogLine(event, TRUE, properties) >>,
                     outcome |-> Returned ]
              ELSE [ effects |-> << SinkCall(event, TRUE, properties, sinkResult) >>,
                     outcome |-> sinkResult ]
         ELSE IF sinkResult = SinkOk
              THEN [ effects |-> << SinkCall(event, FALSE, NoProperties, sinkResult),
                                    LogLine(event, FALSE, NoProperties) >>,
                     outcome |-> Returned ]
              ELSE [ effects |-> << SinkCall(event, FALSE, NoProperties, sinkResult) >>,
                     outcome |-> sinkResult ]
    ELSE [ effects |-> << >>, outcome |-> Returned ]

----------------------------------------------------------------------------
(* The property mapping each capture method assembles *)

\* The requested mapping built by dropping the keys whose value is undefined.
SuggestionRequestedProperties_DropUndefined(context, userTextLength) ==
    Spread(Restrict(context, { k \in { "modelId", "provider" } : context[k] # Undefined }),
           [ usedFim |-> context.usedFim,
             hasVisibleCodeContext |-> context.hasVisibleCodeContext,
             hasClipboardContext |-> context.hasClipboardContext,
             userTextLength |-> userTextLength ])

\* The requested mapping without the code/clipboard flags.
SuggestionRequestedProperties_NoFlags(context, userTextLength) ==
    [ modelId |-> context.modelId,
      provider |-> context.provider,
      usedFim |-> context.usedFim,
      userTextLength |-> userTextLength ]

SuggestionRequestedProperties(context, userTextLength) ==
    [ modelId |-> context.modelId,
      provider |-> context.provider,
      usedFim |-> context.usedFim,
      hasVisibleCodeContext |-> context.hasVisibleCodeContext,
      hasClipboardContext |-> context.hasClipboardContext,
      userTextLength |-> userTextLength ]

\* The completed mapping built field by field instead of by spreading: an
\* optional field the caller left out becomes a key whose value is undefined.
LlmRequestCompletedProperties_FieldByField(properties, context) ==
    [ latencyMs |-> properties.latencyMs,
      inputTokens |-> IF "inputTokens" \in DOMAIN properties
                      THEN properties.inputTokens ELSE Undefined,
      outputTokens |-> IF "outputTokens" \in DOMAIN properties
                       THEN properties.outputTokens ELSE Undefined,
      modelId |-> context.modelId,
      provider |-> context.provider,
      usedFim |-> context.usedFim ]

LlmRequestCompletedProperties(properties, context) ==
    Spread(properties,
           [ modelId |-> context.modelId,
             provider |-> context.provider,
             usedFim |-> context.usedFim ])

LlmRequestFailedProperties(properties, context) ==
    Spread(properties,
           [ modelId |-> context.modelId,
             provider |-> context.provider,
             usedFim |-> context.usedFim ])

\* The returned mapping with modelId and provider taken from each other.
SuggestionReturnedProperties_Swapped(context, suggestionLength) ==
    [ modelId |-> context.provider,
      provider |-> context.modelId,
      usedFim |-> context.usedFim,
      suggestionLength |-> suggestionLength ]

SuggestionReturnedProperties(context, suggestionLength) ==
    [ modelId |-> context.modelId,
      provider |-> context.provider,
      usedFim |-> context.usedFim,
      suggestionLength |-> suggestionLength ]

SuggestionFilteredProperties(reason, context) ==
    [ reason |-> reason,
      modelId |-> context.modelId,
      provider |-> context.provider,
      usedFim |-> context.usedFim ]

\* The accepted mapping with a completion-mode flag added.
SuggestionAcceptedProperties_WithFim(suggestionLength) ==
    [ suggestionLength |-> suggestionLength, usedFim |-> FALSE ]

SuggestionAcceptedProperties(suggestionLength) ==
    [ suggestionLength |-> suggestionLength ]

SuggestionDismissedProperties(dismissReason) ==
    [ dismissReason |-> dismissReason ]

----------------------------------------------------------------------------
(* Operations *)

\* The effects of call number n, each marked with the call that made it.
OfCall(es, n) == [ i \in 1..Len(es) |-> [ call |-> n, effect |-> es[i] ] ]

\* One synchronous call on the wrapper: r is what captureEvent did.
Call(op, args, r) ==
    /\ Len(calls) < MaxCalls
    /\ calls' = Append(calls, [ op |-> op, args |-> args,
                                present |-> hasInstance, outcome |-> r.outcome ])
    /\ effects' = effects \o OfCall(r.effects, Len(calls) + 1)
    /\ UNCHANGED hasInstance

captureSuggestionRequested ==
    \E context \in ChatAutocompleteContext, userTextLength \in Lengths,
       sinkResult \in SinkResults :
        Call("captureSuggestionRequested",
             [ context |-> context, userTextLength |-> userTextLength ],
             captureEvent(CHAT_AUTOCOMPLETE_SUGGESTION_REQUESTED, TRUE,
                          SuggestionRequestedProperties(context, userTextLength),
                          sinkResult))

captureLlmRequestCompleted ==
    \E properties \in LlmRequestCompletedArgs, context \in ChatAutocompleteContext,
       sinkResult \in SinkResults :
        Call("captureLlmRequestCompleted",
             [ properties |-> properties, context |-> context ],
             captureEvent(CHAT_AUTOCOMPLETE_LLM_REQUEST_COMPLETED, TRUE,
                          LlmRequestCompletedProperties(properties, context),
                          sinkResult))

captureLlmRequestFailed ==
    \E properties \in LlmRequestFailedArgs, context \in ChatAutocompleteContext,
       sinkResult \in SinkResults :
        Call("captureLlmRequestFailed",
             [ properties |-> properties, context |-> context ],
             captureEvent(CHAT_AUTOCOMPLETE_LLM_REQUEST_FAILED, TRUE,
                          LlmRequestFailedProperties(properties, context),
                          sinkResult))

captureSuggestionReturned ==
    \E context \in ChatAutocompleteContext, suggestionLength \in Lengths,
       sinkResult \in SinkResults :
        Call("captureSuggestionReturned",
             [ context |-> context, suggestionLength |-> suggestionLength ],
             captureEvent(CHAT_AUTOCOMPLETE_SUGGESTION_RETURNED, TRUE,
                          SuggestionReturnedProperties(context, suggestionLength),
                          sinkResult))

captureSuggestionFiltered ==
    \E reason \in FilterReasons, context \in ChatAutocompleteContext,
       sinkResult \in SinkResults :
        Call("captureSuggestionFiltered",
             [ reason |-> reason, context |-> context ],
             captureEvent(CHAT_AUTOCOMPLETE_SUGGESTION_FILTERED, TRUE,
                          SuggestionFilteredProperties(reason, context),
                          sinkResult))

captureSuggestionAccepted ==
    \E suggestionLength \in Lengths, sinkResult \in SinkResults :
        Call("captureSuggestionAccepted",
             [ suggestionLength |-> suggestionLength ],
             captureEvent(CHAT_AUTOCOMPLETE_SUGGESTION_ACCEPTED, TRUE,
                          SuggestionAcceptedProperties(suggestionLength),
                          sinkResult))

captureSuggestionDismissed ==
    \E dismissReason \in DismissReasons, sinkResult \in SinkResults :
        Call("captureSuggestionDismissed",
             [ dismissReason |-> dismissReason ],
             captureEvent(CHAT_AUTOCOMPLETE_SUGGESTION_DISMISSED, TRUE,
                          SuggestionDismissedProperties(dismissReason),
                          sinkResult))

\* captureEvent called with an event and no properties argument.
captureEventOnly ==
    \E event \in BareEvents, sinkResult \in SinkResults :
        Call("captureEvent", [ event |-> event ],
             captureEvent(event, FALSE, NoProperties, sinkResult))

\* The TelemetryService singleton comes to exist, or ceases to.
SinkBecomesPresent ==
    /\ ~hasInstance
    /\ hasInstance' = TRUE
    /\ UNCHANGED <<calls, effects>>

SinkBecomesAbsent ==
    /\ hasInstance
    /\ hasInstance' = FALSE
    /\ UNCHANGED <<calls, effects>>

Init ==
    /\ hasInstance \in BOOLEAN
    /\ calls = << >>
    /\ effects = << >>

Next ==
    \/ captureSuggestionRequested
    \/ captureLlmRequestCompleted
    \/ captureLlmRequestFailed
    \/ captureSuggestionReturned
    \/ captureSuggestionFiltered
    \/ captureSuggestionAccepted
    \/ captureSuggestionDismissed
    \/ captureEventOnly
    \/ SinkBecomesPresent
    \/ SinkBecomesAbsent

Spec == Init /\ [][Next]_vars

----------------------------------------------------------------------------
(* What the sink and the console received *)

CaptureOps ==
    { "captureSuggestionRequested", "captureLlmRequestCompleted",
      "captureLlmRequestFailed", "captureSuggestionReturned",
      "captureSuggestionFiltered", "captureSuggestionAccepted",
      "captureSuggestionDismissed" }

ContextOps ==
    { "captureSuggestionRequested", "captureLlmRequestCompleted",
      "captureLlmRequestFailed", "captureSuggestionReturned",
      "captureSuggestionFiltered" }

ContextKeys ==
    { "modelId", "provider", "usedFim", "hasVisibleCodeContext", "hasClipboardContext" }

SharedKeys == { "modelId", "provider", "usedFim" }

FlagKeys == { "hasVisibleCodeContext", "hasClipboardContext" }

CallIds == 1..Len(calls)

\* Positions in effects of the sink calls, and of the log lines, of call n.
SinkAt(n) ==
    { i \in 1..Len(effects) : effects[i].call = n /\ effects[i].effect.target = "sink" }

LogAt(n) ==
    { i \in 1..Len(effects) : effects[i].call = n /\ effects[i].effect.target = "log" }

AllSinkAt == { i \in 1..Len(effects) : effects[i].effect.target = "sink" }

AllLogAt == { i \in 1..Len(effects) : effects[i].effect.target = "log" }

\* The calls the sink received, in the order it received them.
sinkCalls == SelectSeq(effects, LAMBDA e : e.effect.target = "sink")

\* The calls made while the sink was present, in call order.
PresentCalls ==
    SelectSeq([ n \in CallIds |-> n ], LAMBDA n : calls[n].present)

\* The event kind documented for a call.
DocumentedEvent(c) ==
    CASE c.op = "captureSuggestionRequested" -> CHAT_AUTOCOMPLETE_SUGGESTION_REQUESTED
      [] c.op = "captureLlmRequestCompleted" -> CHAT_AUTOCOMPLETE_LLM_REQUEST_COMPLETED
      [] c.op = "captureLlmRequestFailed" -> CHAT_AUTOCOMPLETE_LLM_REQUEST_FAILED
      [] c.op = "captureSuggestionReturned" -> CHAT_AUTOCOMPLETE_SUGGESTION_RETURNED
      [] c.op = "captureSuggestionFiltered" -> CHAT_AUTOCOMPLETE_SUGGESTION_FILTERED
      [] c.op = "captureSuggestionAccepted" -> CHAT_AUTOCOMPLETE_SUGGESTION_ACCEPTED
      [] c.op = "captureSuggestionDismissed" -> CHAT_AUTOCOMPLETE_SUGGESTION_DISMISSED
      [] c.op = "captureEvent" -> c.args.event

\* The key set documented for a capture call.
DocumentedKeys(c) ==
    CASE c.op = "captureSuggestionRequested" ->
            { "modelId", "provider", "usedFim", "hasVisibleCodeContext",
              "hasClipboardContext", "userTextLength" }
      [] c.op \in { "captureLlmRequestCompleted", "captureLlmRequestFailed" } ->
            (DOMAIN c.args.properties) \cup { "modelId", "provider", "usedFim" }
      [] c.op = "captureSuggestionReturned" ->
            { "modelId", "provider", "usedFim", "suggestionLength" }
      [] c.op = "captureSuggestionFiltered" ->
            { "reason", "modelId", "provider", "usedFim" }
      [] c.op = "captureSuggestionAccepted" -> { "suggestionLength" }
      [] c.op = "captureSuggestionDismissed" -> { "dismissReason" }

\* The value passed in for key k of a capture call.
PassedValue(c, k) ==
    IF k \in ContextKeys THEN c.args.context[k]
    ELSE IF k \in { "userTextLength", "suggestionLength", "reason", "dismissReason" }
         THEN c.args[k]
         ELSE c.args.properties[k]

----------------------------------------------------------------------------
(* Claims *)

\* C1: a capture operation called while the sink is absent returns without
\* throwing, and the sink's captureEvent is not invoked for it.
C1_AbsentSinkIsSilent ==
    \A n \in CallIds :
        (calls[n].op \in CaptureOps /\ ~calls[n].present) =>
            /\ calls[n].outcome = Returned
            /\ SinkAt(n) = {}

\* Two different capture operations were called while the sink was absent.
C1_Witness ==
    /\ Len(calls) >= 2
    /\ calls[1].op \in CaptureOps /\ ~calls[1].present
    /\ calls[2].op \in CaptureOps /\ ~calls[2].present
    /\ calls[1].op # calls[2].op

\* C2: a capture operation called while the sink is present invokes the
\* sink's captureEvent exactly once, with the operation's event kind and a
\* mapping whose key set is the documented one and whose values are the
\* values passed in.
C2_ForwardedOnceAsDocumented ==
    \A n \in CallIds :
        (calls[n].op \in CaptureOps /\ calls[n].present) =>
            /\ Cardinality(SinkAt(n)) = 1
            /\ \A i \in SinkAt(n) :
                /\ effects[i].effect.event = DocumentedEvent(calls[n])
                /\ effects[i].effect.hasProps
                /\ DOMAIN effects[i].effect.properties = DocumentedKeys(calls[n])
                /\ \A k \in DocumentedKeys(calls[n]) :
                    effects[i].effect.properties[k] = PassedValue(calls[n], k)

C2_Witness ==
    /\ Len(calls) >= 2
    /\ calls[1].op = "captureSuggestionReturned" /\ calls[1].present
    /\ calls[1].args.context.modelId = "test-model"
    /\ calls[2].op = "captureLlmRequestFailed" /\ calls[2].present
    /\ Cardinality(AllSinkAt) = 2

\* C3: the sequence of calls the sink received is the subsequence of the
\* calls made while the sink was present, in call order, each with its own
\* event kind; a call made while the sink was absent is in it at no time.
C3_ForwardedAtCallTimeOnly ==
    LET received == sinkCalls
        made == PresentCalls
    IN  /\ Len(received) = Len(made)
        /\ \A i \in 1..Len(received) :
            /\ i <= Len(made)
            /\ received[i].call = made[i]
            /\ received[i].effect.event = DocumentedEvent(calls[made[i]])

\* A call was dropped while the sink was absent, the sink then became
\* present and received a later call.
C3_Witness ==
    /\ Len(calls) >= 2
    /\ ~calls[1].present
    /\ calls[2].present
    /\ Len(sinkCalls) = 1
    /\ sinkCalls[1].call = 2

\* C4, as claimed: whatever the event kind and the properties, a call that
\* goes through captureEvent completes normally, sink absent or present.
C4_NeverThrows ==
    \A n \in CallIds : calls[n].outcome = Returned

\* C4, amended: a call that goes through captureEvent completes normally
\* when the sink is absent and when the sink's captureEvent returned; the
\* only error that leaves it is the one the sink's captureEvent threw.
C4_ThrowsOnlyWhatTheSinkThrows ==
    \A n \in CallIds :
        /\ ~calls[n].present => calls[n].outcome = Returned
        /\ (calls[n].present /\ \A i \in SinkAt(n) : effects[i].effect.result = SinkOk)
              => calls[n].outcome = Returned
        /\ calls[n].outcome # Returned =>
              /\ calls[n].present
              /\ \E i \in SinkAt(n) : effects[i].effect.result = calls[n].outcome
              /\ calls[n].outcome \in SinkErrors

\* A call with no properties completed with the sink present, and a call
\* completed with the sink absent.
C4_Witness ==
    /\ \E n \in CallIds :
        /\ calls[n].op = "captureEvent" /\ calls[n].present
        /\ calls[n].outcome = Returned
        /\ \E i \in SinkAt(n) : ~effects[i].effect.hasProps
    /\ \E n \in CallIds : ~calls[n].present /\ calls[n].outcome = Returned

\* C5, as claimed: with the sink present every call emits exactly one log
\* line, and the log lines are as many as the calls the sink received.
C5_OneLogLinePerPresentCall ==
    /\ \A n \in CallIds : calls[n].present => Cardinality(LogAt(n)) = 1
    /\ Cardinality(AllLogAt) = Cardinality(AllSinkAt)

\* C5, amended: a call whose sink captureEvent returned emits exactly one
\* log line, right after that sink call, naming the same event kind and
\* carrying the same properties (or none); a call made with the sink absent,
\* or whose sink call threw, emits none.  The log lines are as many as the
\* sink calls that returned.
C5_LogFollowsSuccessfulForward ==
    /\ \A n \in CallIds :
        IF calls[n].present /\ calls[n].outcome = Returned
        THEN /\ Cardinality(LogAt(n)) = 1
             /\ \A j \in LogAt(n) :
                 /\ j - 1 \in SinkAt(n)
                 /\ effects[j].effect.message =
                        "Chat Autocomplete Telemetry event: " \o effects[j - 1].effect.event
                 /\ effects[j].effect.hasProps = effects[j - 1].effect.hasProps
                 /\ effects[j].effect.properties = effects[j - 1].effect.properties
        ELSE LogAt(n) = {}
    /\ Cardinality(AllLogAt) =
          Cardinality({ i \in AllSinkAt : effects[i].effect.result = SinkOk })

\* One call was forwarded and logged, one was made with the sink absent.
C5_Witness ==
    /\ Len(calls) >= 2
    /\ calls[1].present /\ calls[1].outcome = Returned /\ calls[1].op \in CaptureOps
    /\ ~calls[2].present
    /\ Cardinality(AllLogAt) = 1

\* C6: when modelId or provider of the context is undefined, the mapping
\* forwarded by a context-taking operation has that key, with the value
\* undefined.
C6_UndefinedContextFieldsKept ==
    \A n \in CallIds :
        (calls[n].op \in ContextOps /\ calls[n].present) =>
            \A i \in SinkAt(n) : \A k \in { "modelId", "provider" } :
                calls[n].args.context[k] = Undefined =>
                    /\ k \in DOMAIN effects[i].effect.properties
                    /\ effects[i].effect.properties[k] = Undefined

C6_Witness ==
    \E n \in CallIds :
        /\ calls[n].op = "captureSuggestionRequested" /\ calls[n].present
        /\ calls[n].args.context.modelId = Undefined
        /\ calls[n].args.context.provider = Undefined
        /\ SinkAt(n) # {}

\* C7: the mapping forwarded by captureLlmRequestCompleted has latencyMs,
\* modelId, provider, usedFim and, of inputTokens and outputTokens, exactly
\* the ones the caller supplied.
C7_AbsentOptionalFieldsStayAbsent ==
    \A n \in CallIds :
        (calls[n].op = "captureLlmRequestCompleted" /\ calls[n].present) =>
            \A i \in SinkAt(n) :
                /\ { "latencyMs", "modelId", "provider", "usedFim" }
                      \subseteq DOMAIN effects[i].effect.properties
                /\ (DOMAIN effects[i].effect.properties)
                      \ { "latencyMs", "modelId", "provider", "usedFim" }
                   = (DOMAIN calls[n].args.properties) \cap { "inputTokens", "outputTokens" }

\* Forwarded once with latencyMs only, once with inputTokens and not outputTokens.
C7_Witness ==
    /\ Len(calls) >= 2
    /\ calls[1].op = "captureLlmRequestCompleted" /\ calls[1].present
    /\ DOMAIN calls[1].args.properties = { "latencyMs" }
    /\ calls[2].op = "captureLlmRequestCompleted" /\ calls[2].present
    /\ DOMAIN calls[2].args.properties = { "latencyMs", "inputTokens" }
    /\ Cardinality(AllSinkAt) = 2

\* C8: the mapping forwarded by captureSuggestionAccepted is exactly
\* {suggestionLength} and the one forwarded by captureSuggestionDismissed is
\* exactly {dismissReason}; neither has a context-derived key.
C8_TerminalEventsCarryNoContext ==
    \A n \in CallIds :
        /\ calls[n].op = "captureSuggestionAccepted" =>
              \A i \in SinkAt(n) :
                  /\ DOMAIN effects[i].effect.properties = { "suggestionLength" }
                  /\ effects[i].effect.properties.suggestionLength
                        = calls[n].args.suggestionLength
        /\ calls[n].op = "captureSuggestionDismissed" =>
              \A i \in SinkAt(n) :
                  /\ DOMAIN effects[i].effect.properties = { "dismissReason" }
                  /\ effects[i].effect.properties.dismissReason
                        = calls[n].args.dismissReason
        /\ calls[n].op \in { "captureSuggestionAccepted", "captureSuggestionDismissed" } =>
              \A i \in SinkAt(n) :
                  (DOMAIN effects[i].effect.properties) \cap ContextKeys = {}

\* An accepted event was forwarded after an event that carried a context.
C8_Witness ==
    /\ Len(calls) >= 2
    /\ calls[1].op = "captureSuggestionReturned" /\ calls[1].present
    /\ calls[2].op = "captureSuggestionAccepted" /\ calls[2].present
    /\ SinkAt(2) # {}

\* C9, as claimed: every event of an in-attempt operation carries modelId,
\* provider and usedFim, and the requested and the filtered events carry
\* hasVisibleCodeContext and hasClipboardContext as well.
C9_RequestedAndFilteredCarryFlags ==
    \A n \in CallIds :
        /\ calls[n].op \in ContextOps =>
              \A i \in SinkAt(n) : SharedKeys \subseteq DOMAIN effects[i].effect.properties
        /\ calls[n].op \in { "captureSuggestionRequested", "captureSuggestionFiltered" } =>
              \A i \in SinkAt(n) : FlagKeys \subseteq DOMAIN effects[i].effect.properties

\* C9, amended: every event of an in-attempt operation carries modelId,
\* provider and usedFim with the context's values; of these events only the
\* requested one carries hasVisibleCodeContext and hasClipboardContext, and
\* the filtered one carries neither.
C9_OnlyRequestedCarriesFlags ==
    \A n \in CallIds :
        calls[n].op \in ContextOps =>
            \A i \in SinkAt(n) :
                /\ SharedKeys \subseteq DOMAIN effects[i].effect.properties
                /\ \A k \in SharedKeys :
                    effects[i].effect.properties[k] = calls[n].args.context[k]
                /\ IF calls[n].op = "captureSuggestionRequested"
                   THEN /\ FlagKeys \subseteq DOMAIN effects[i].effect.properties
                        /\ \A k \in FlagKeys :
                            effects[i].effect.properties[k] = calls[n].args.context[k]
                   ELSE FlagKeys \cap DOMAIN effects[i].effect.properties = {}

\* A requested event and a filtered event were both forwarded.
C9_Witness ==
    /\ Len(calls) >= 2
    /\ calls[1].op = "captureSuggestionRequested" /\ SinkAt(1) # {}
    /\ calls[2].op = "captureSuggestionFiltered" /\ SinkAt(2) # {}

\* C10: when the sink's captureEvent throws, the error it threw is the
\* outcome of the capture call, no log line is emitted for that call, and
\* the sink is called once for it: not again in that call, nor in a later one.
C10_SinkFailurePropagates ==
    \A i \in AllSinkAt :
        effects[i].effect.result # SinkOk =>
            /\ calls[effects[i].call].outcome = effects[i].effect.result
            /\ LogAt(effects[i].call) = {}
            /\ SinkAt(effects[i].call) = { i }

\* The sink threw on the first call, and a second call was forwarded.
C10_Witness ==
    /\ Len(calls) >= 2
    /\ calls[1].present /\ calls[1].outcome \in SinkErrors
    /\ calls[2].present /\ calls[2].outcome = Returned
    /\ Cardinality(AllSinkAt) = 2

====
